---- MODULE Spec2Model ----
(***************************************************************************)
(* Model of gulp-gh-pages (src/index.js): a through2 object stream whose   *)
(* transform (collectFileName) buffers the incoming vinyl files and whose  *)
(* flush (task) deploys them to a branch through a chain of promises on    *)
(* the repository handle of ./lib/git.                                     *)
(*                                                                         *)
(* ./lib/git, gulp.dest and the system clock are collaborators: their      *)
(* steps are separate actions that either succeed with the effect the      *)
(* specification gives them or fail.  The then-handlers of task are the    *)
(* actions in between.                                                     *)
(***************************************************************************)
EXTENDS Integers, Sequences, FiniteSets, TLC

VARIABLES
    options,        \* the options object handed to module.exports
    pc,             \* position of the run in the stream / promise chain
    filePaths,      \* index.js:38, the collected files
    forwarded,      \* files pushed downstream by collectFileName
    errors,         \* "error" events emitted on the stream
    received,       \* number of files the transform has been given
    input,          \* the files the transform has been given, in order
    handle,         \* the fields of the repo handle that task reads
    written,        \* number of collected files gulp.dest has written
    base,           \* commits on the branch when the copy handler ran
    calls,          \* collaborator calls of this run, in order
    results,        \* outcome of each call of this run, in the same order
    reason,         \* the reason the chain was rejected with, or Undefined
    callbacks,      \* arguments of each invocation of task's callback
    thrown,         \* the Error thrown out of the chain, or Undefined
    startTime,      \* clock value when task was entered
    run,            \* number of the current run
    prev,           \* how the previous run ended and the tree of what it collected
    now,            \* the system clock: days since the epoch and ms of the day
    ticks,          \* number of times the clock has advanced
    clone,          \* the working copy that prepareRepo opens
    remote          \* branches of the remote repository

vars == <<options, pc, filePaths, forwarded, errors, received, input, handle,
          written, base, calls, results, reason, callbacks, thrown, startTime, run, prev, now,
          ticks, clone, remote>>

streamVars == <<filePaths, forwarded, errors, received, input>>

endVars == <<callbacks, thrown>>

envVars == <<options, run, prev, now, ticks>>

-----------------------------------------------------------------------------
(* Bounds *)

MaxFiles == 2
MaxRuns == 2
MaxTicks == 1

Undefined == "undefined"

OriginOpts == {Undefined, "upstream"}
BranchOpts == {Undefined}
CacheDirOpts == {Undefined, ".publish"}
PushOpts == {Undefined, "true", "false"}

\* a clock value is [day, ms]: whole days since 1970-01-01 and the ms within
\* the day (TLC's integers are 32 bits wide, a time in ms is not)
StartTimes == {[day |-> 11015, ms |-> 86399999]}

-----------------------------------------------------------------------------
(* Date.prototype.toISOString *)

Digit(d) == <<"0", "1", "2", "3", "4", "5", "6", "7", "8", "9">>[d + 1]

Pad2(n) == Digit((n \div 10) % 10) \o Digit(n % 10)

Pad3(n) == Digit((n \div 100) % 10) \o Pad2(n % 100)

Pad4(n) == Digit((n \div 1000) % 10) \o Pad3(n % 1000)

MsPerDay == 86400000

IsLeap(y) == (y % 4 = 0 /\ y % 100 # 0) \/ y % 400 = 0

DaysInYear(y) == IF IsLeap(y) THEN 366 ELSE 365

DaysInMonth(y, m) ==
    IF m = 2 THEN (IF IsLeap(y) THEN 29 ELSE 28)
    ELSE IF m \in {4, 6, 9, 11} THEN 30 ELSE 31

\* days from 1970-01-01 to the first day of year y
DaysBeforeYear(y) ==
    365 * (y - 1970) + ((y - 1969) \div 4) - ((y - 1901) \div 100)
        + ((y - 1601) \div 400)

YearFromDays(d) ==
    CHOOSE y \in 1970..(1970 + d \div 365) :
        DaysBeforeYear(y) <= d /\ d < DaysBeforeYear(y) + DaysInYear(y)

RECURSIVE DaysBeforeMonth(_, _)
DaysBeforeMonth(y, m) ==
    IF m = 1 THEN 0 ELSE DaysBeforeMonth(y, m - 1) + DaysInMonth(y, m - 1)

MonthFromDay(y, yd) ==
    CHOOSE m \in 1..12 :
        DaysBeforeMonth(y, m) <= yd /\ yd < DaysBeforeMonth(y, m) + DaysInMonth(y, m)

ToISOString(t) ==
    LET d  == t.day
        ms == t.ms
        y  == YearFromDays(d)
        yd == d - DaysBeforeYear(y)
        m  == MonthFromDay(y, yd)
        dd == yd - DaysBeforeMonth(y, m) + 1
    IN  Pad4(y) \o "-" \o Pad2(m) \o "-" \o Pad2(dd) \o "T"
        \o Pad2(ms \div 3600000) \o ":" \o Pad2((ms \div 60000) % 60) \o ":"
        \o Pad2((ms \div 1000) % 60) \o "." \o Pad3(ms % 1000) \o "Z"

-----------------------------------------------------------------------------
(* module.exports: the options *)

\* JavaScript's a || d
OrElse(a, d) == IF a \in {Undefined, ""} THEN d ELSE a

origin == OrElse(options.origin, "origin")

branch == OrElse(options.branch, "gh-pages")

cacheDir == options.cacheDir

\* the default of the push option left out
push_NoDefault == options.push = "true"

push == IF options.push = Undefined THEN TRUE ELSE options.push = "true"

Options ==
    [origin : OriginOpts, branch : BranchOpts, cacheDir : CacheDirOpts,
     push : PushOpts]

-----------------------------------------------------------------------------
(* Files, trees and the repository *)

\* a vinyl file: isNull(), isStream() or a buffer with contents
Files ==
    {[kind |-> "buffer", path |-> "a.html", contents |-> "B"],
     [kind |-> "buffer", path |-> "b.html", contents |-> "A"],
     [kind |-> "null", path |-> "dir", contents |-> Undefined],
     [kind |-> "stream", path |-> "s.html", contents |-> Undefined]}

\* a tree is a set of entries with distinct paths
Entry(file) == [path |-> file.path, contents |-> file.contents]

PathsOf(tree) == {e.path : e \in tree}

WriteFile(tree, file) == {e \in tree : e.path # file.path} \cup {Entry(file)}

RECURSIVE WriteFiles(_, _, _)
\* the tree after the first n files of fs have been written into it, in order
WriteFiles(tree, fs, n) ==
    IF n = 0 THEN tree ELSE WriteFile(WriteFiles(tree, fs, n - 1), fs[n])

\* the paths whose entry differs between two trees
Changed(old, new) == PathsOf((old \ new) \cup (new \ old))

EmptyTree == {}

MasterTree == {[path |-> "README.md", contents |-> "R"]}

DeployedTree == {[path |-> "a.html", contents |-> "A"]}

Ref(tree, n) == [tree |-> tree, n |-> n]

Tracking(name, b) == name \o "/" \o b

NoClone ==
    [exists |-> FALSE, local |-> {}, tracking |-> {}, current |-> Undefined,
     wt |-> EmptyTree, index |-> EmptyTree, heads |-> <<>>]

NoHandle == [_localBranches |-> {}, _remoteBranches |-> {}, _staged |-> {}]

NoPrev == [ended |-> Undefined, tree |-> EmptyTree]

\* the directory of the working copy: git.prepareRepo(remoteUrl, cacheDir)
repoDir == IF cacheDir = Undefined THEN "tmpdir" ELSE cacheDir

\* the directory the files are written to: gulp.dest(cacheDir)
destDir == cacheDir

Call(op, arg) == [op |-> op, arg |-> arg]

Called(op) == {i \in 1..Len(calls) : calls[i].op = op}

-----------------------------------------------------------------------------
Init ==
    /\ options \in Options
    /\ pc = "collect"
    /\ filePaths = <<>>
    /\ forwarded = <<>>
    /\ errors = <<>>
    /\ received = 0
    /\ input = <<>>
    /\ handle = NoHandle
    /\ written = 0
    /\ base = 0
    /\ calls = <<>>
    /\ results = <<>>
    /\ reason = Undefined
    /\ callbacks = <<>>
    /\ thrown = Undefined
    /\ startTime = Undefined
    /\ run = 1
    /\ prev = NoPrev
    /\ now \in StartTimes
    /\ ticks = 0
    /\ clone = NoClone
    /\ remote \in {"master" :> Ref(MasterTree, 1),
                   ("master" :> Ref(MasterTree, 1))
                       @@ (branch :> Ref(DeployedTree, 1))}

-----------------------------------------------------------------------------------------------------------------------------------------------------
(* The clock *)

\* the chain reads the clock in task and in the handler that commits: time
\* that passes in between is time that has passed when that handler runs
Tick ==
    /\ pc = "decide"
    /\ ticks < MaxTicks
    /\ ticks' = ticks + 1
    /\ now' = IF now.ms + 1 = MsPerDay
              THEN [day |-> now.day + 1, ms |-> 0]
              ELSE [day |-> now.day, ms |-> now.ms + 1]
    /\ UNCHANGED <<options, run, prev, pc, streamVars, handle, written, base, calls,
                   results, reason, endVars, startTime, clone, remote>>

-----------------------------------------------------------------------------
(* The transform of the stream *)

\* the file carries a stream where its contents should be
isStream_Unchecked(file) == FALSE

isStream(file) == file.kind = "stream"

\* the file carries no contents
isNull_Unchecked(file) == FALSE

isNull(file) == file.kind = "null"

\* emit("error", ...) returns when the stream has a listener for the event
\* and throws the error when it has none
collectFileName ==
    /\ pc = "collect"
    /\ received < MaxFiles
    /\ \E file \in Files, listened \in BOOLEAN :
        /\ received' = received + 1
        /\ input' = Append(input, file)
        /\ IF isNull(file)
           THEN /\ forwarded' = Append(forwarded, file)
                /\ UNCHANGED <<filePaths, errors, pc, thrown>>
           ELSE IF isStream(file)
           THEN /\ errors' = Append(errors, "Stream content is not supported")
                /\ IF listened
                   THEN UNCHANGED <<pc, thrown>>
                   ELSE /\ pc' = "thrown"
                        /\ thrown' = "Error: Stream content is not supported"
                /\ UNCHANGED <<filePaths, forwarded>>
           ELSE /\ filePaths' = Append(filePaths, file)
                /\ UNCHANGED <<forwarded, errors, pc, thrown>>
    /\ UNCHANGED <<envVars, handle, written, base, calls, results, reason,
                   callbacks, startTime, clone, remote>>

-----------------------------------------------------------------------------
(* The flush of the stream: task and the handlers of its promise chain *)

\* a collaborator is called: the chain waits for its promise
Invoke(op, arg) ==
    /\ calls' = Append(calls, Call(op, arg))
    /\ pc' = op
    /\ UNCHANGED results

\* the pending promise is fulfilled and the next handler becomes runnable
Fulfil(next) ==
    /\ results' = Append(results, "ok")
    /\ pc' = next
    /\ UNCHANGED <<calls, reason>>

\* the check for an empty collection left out
NothingCollected_Missing == FALSE

\* if (filePaths.length === 0) return callback();
NothingCollected == Len(filePaths) = 0

task ==
    /\ pc = "collect"
    /\ startTime' = now
    /\ IF NothingCollected
       THEN /\ callbacks' = Append(callbacks, Undefined)
            /\ pc' = "done"
            /\ UNCHANGED <<calls, results>>
       ELSE /\ Invoke("prepareRepo", cacheDir)
            /\ UNCHANGED callbacks
    /\ UNCHANGED <<envVars, streamVars, handle, written, base, reason, thrown,
                   clone, remote>>

\* the remote branches not consulted
BranchOperation_LocalOnly ==
    IF branch \in handle._localBranches
    THEN "checkoutBranch"
    ELSE "createAndCheckoutBranch"

\* the remote branches looked up without the name of the remote
BranchOperation_BareName ==
    IF branch \in handle._localBranches
    THEN "checkoutBranch"
    ELSE IF branch \in handle._remoteBranches
    THEN "checkoutBranch"
    ELSE "createAndCheckoutBranch"

\* which branch operation the first handler picks
BranchOperation ==
    IF branch \in handle._localBranches
    THEN "checkoutBranch"
    ELSE IF Tracking(origin, branch) \in handle._remoteBranches
    THEN "checkoutBranch"
    ELSE "createAndCheckoutBranch"

resolveBranch ==
    /\ pc = "resolveBranch"
    /\ Invoke(BranchOperation, branch)
    /\ UNCHANGED <<envVars, streamVars, handle, written, base, reason, endVars,
                   startTime, clone, remote>>

\* pull whether or not a cacheDir was given
PullWanted_Always == TRUE

\* if (cacheDir)
PullWanted == cacheDir \notin {Undefined, ""}

sync ==
    /\ pc = "sync"
    /\ IF PullWanted
       THEN Invoke("pull", Undefined)
       ELSE /\ pc' = "clear"
            /\ UNCHANGED <<calls, results>>
    /\ UNCHANGED <<envVars, streamVars, handle, written, base, reason, endVars,
                   startTime, clone, remote>>

\* the files of the branch not removed before the new ones are written
clear_Skipped ==
    /\ pc = "clear"
    /\ pc' = "copy"
    /\ UNCHANGED <<envVars, streamVars, handle, written, base, calls, results,
                   reason, endVars, startTime, clone, remote>>

\* the handler registered for the rejection of pull as well
clear_OnRejection ==
    /\ \/ pc = "clear"
       \/ pc = "rejected" /\ calls[Len(calls)].op = "pull"
    /\ Invoke("removeFiles", ".")
    /\ UNCHANGED <<envVars, streamVars, handle, written, base, reason, endVars,
                   startTime, clone, remote>>

clear ==
    /\ pc = "clear"
    /\ Invoke("removeFiles", ".")
    /\ UNCHANGED <<envVars, streamVars, handle, written, base, reason, endVars,
                   startTime, clone, remote>>

\* gulp.dest throws for a folder that is not a string
copyFiles ==
    /\ pc = "copy"
    /\ written' = 0
    /\ base' = clone.heads[clone.current].n
    /\ IF destDir = Undefined
       THEN /\ calls' = Append(calls, Call("dest", destDir))
            /\ results' = Append(results, "failed")
            /\ reason' = "Invalid output folder"
            /\ pc' = "rejected"
       ELSE /\ Invoke("dest", destDir)
            /\ UNCHANGED reason
    /\ UNCHANGED <<envVars, streamVars, handle, endVars, startTime, clone,
                   remote>>

\* the promise of the copy not returned: staging does not wait for it
stage_NotChained ==
    /\ pc \in {"stage", "dest"}
    /\ Invoke("addFiles", ".")
    /\ UNCHANGED <<envVars, streamVars, handle, written, base, reason, endVars,
                   startTime, clone, remote>>

stage ==
    /\ pc = "stage"
    /\ Invoke("addFiles", ".")
    /\ UNCHANGED <<envVars, streamVars, handle, written, base, reason, endVars,
                   startTime, clone, remote>>

\* the keys of the handle counted instead of the keys of its _staged
filesToBeCommitted_KeysOfRepo == Cardinality(DOMAIN handle)

\* the files in the index counted instead of the staged changes
filesToBeCommitted_IndexSize == Cardinality(clone.index)

filesToBeCommitted == Cardinality(handle._staged)

\* the time of the start of task instead of the time of the commit
message_AtStart == "Update " \o ToISOString(startTime)

message == "Update " \o ToISOString(now)

decide ==
    /\ pc = "decide"
    /\ IF filesToBeCommitted = 0
       THEN /\ pc' = "fulfilled"
            /\ UNCHANGED <<calls, results>>
       ELSE Invoke("commit", message)
    /\ UNCHANGED <<envVars, streamVars, handle, written, base, reason, endVars,
                   startTime, clone, remote>>

afterCommit ==
    /\ pc = "afterCommit"
    /\ IF push
       THEN Invoke("push", origin)
       ELSE /\ pc' = "fulfilled"
            /\ UNCHANGED <<calls, results>>
    /\ UNCHANGED <<envVars, streamVars, handle, written, base, reason, endVars,
                   startTime, clone, remote>>

\* the callback left out of the handler of the fulfilled chain
doneFulfilled_NoCallback ==
    /\ pc = "fulfilled"
    /\ pc' = "done"
    /\ UNCHANGED <<envVars, streamVars, handle, written, base, calls, results,
                   reason, endVars, startTime, clone, remote>>

doneFulfilled ==
    /\ pc = "fulfilled"
    /\ callbacks' = Append(callbacks, Undefined)
    /\ pc' = "done"
    /\ UNCHANGED <<envVars, streamVars, handle, written, base, calls, results,
                   reason, thrown, startTime, clone, remote>>

\* the commit undone when it is the push that was rejected
doneRejected_RollsBack ==
    /\ pc = "rejected"
    /\ thrown' = "Error: " \o reason
    /\ pc' = "thrown"
    /\ IF calls[Len(calls)].op = "push"
       THEN /\ calls' = Append(calls, Call("reset", "HEAD~1"))
            /\ clone' = [clone EXCEPT !.heads[clone.current].n = @ - 1]
       ELSE UNCHANGED <<calls, clone>>
    /\ UNCHANGED <<envVars, streamVars, handle, written, base, results,
                   reason, callbacks, startTime, remote>>

doneRejected ==
    /\ pc = "rejected"
    /\ thrown' = "Error: " \o reason
    /\ pc' = "thrown"
    /\ UNCHANGED <<envVars, streamVars, handle, written, base, calls, results,
                   reason, callbacks, startTime, clone, remote>>

-----------------------------------------------------------------------------
(* The collaborators: ./lib/git and gulp.dest *)

FreshClone ==
    [exists |-> TRUE, local |-> {"master"},
     tracking |-> {Tracking("origin", b) : b \in DOMAIN remote},
     current |-> "master", wt |-> MasterTree, index |-> MasterTree,
     heads |-> "master" :> remote["master"]]

\* open(remoteUrl, cacheDir): clone if absent, reuse otherwise
prepareRepoOk ==
    /\ pc = "prepareRepo"
    /\ clone' = IF clone.exists THEN clone ELSE FreshClone
    /\ handle' = [_localBranches |-> clone'.local,
                  _remoteBranches |-> clone'.tracking,
                  _staged |-> {}]
    /\ Fulfil("resolveBranch")
    /\ UNCHANGED <<envVars, streamVars, written, base, endVars, startTime, remote>>

\* checkoutBranch(name): switch to name, tracking origin/name if it is not local
checkoutBranchOk ==
    /\ pc = "checkoutBranch"
    /\ LET name == calls[Len(calls)].arg
           heads == IF name \in clone.local
                    THEN clone.heads
                    ELSE (name :> remote[name]) @@ clone.heads
       IN  /\ name \in clone.local \cup DOMAIN remote
           /\ clone' = [clone EXCEPT !.local = @ \cup {name},
                                     !.heads = heads,
                                     !.current = name,
                                     !.wt = heads[name].tree,
                                     !.index = heads[name].tree]
    /\ Fulfil("sync")
    /\ UNCHANGED <<envVars, streamVars, handle, written, base, endVars, startTime,
                   remote>>

\* createAndCheckoutBranch(name): an orphan branch, no commit yet
createAndCheckoutBranchOk ==
    /\ pc = "createAndCheckoutBranch"
    /\ LET name == calls[Len(calls)].arg
       IN  clone' = [clone EXCEPT !.local = @ \cup {name},
                                  !.heads = (name :> Ref(EmptyTree, 0)) @@ @,
                                  !.current = name]
    /\ Fulfil("sync")
    /\ UNCHANGED <<envVars, streamVars, handle, written, base, endVars, startTime,
                   remote>>

\* pull(): fast-forward from the remote counterpart, a no-op without one
pullOk ==
    /\ pc = "pull"
    /\ LET cur == clone.current
       IN  clone' = IF cur \in DOMAIN remote /\ remote[cur].n > clone.heads[cur].n
                    THEN [clone EXCEPT !.heads[cur] = remote[cur],
                                       !.wt = remote[cur].tree,
                                       !.index = remote[cur].tree]
                    ELSE clone
    /\ Fulfil("clear")
    /\ UNCHANGED <<envVars, streamVars, handle, written, base, endVars, startTime,
                   remote>>

\* removeFiles('.', {r: true}): everything in the working tree is deleted
\* and the deletion staged
removeFilesOk ==
    /\ pc = "removeFiles"
    /\ clone' = [clone EXCEPT !.wt = EmptyTree, !.index = EmptyTree]
    /\ Fulfil("copy")
    /\ UNCHANGED <<envVars, streamVars, handle, written, base, endVars, startTime,
                   remote>>

\* gulp.dest writes the next file under its folder
destWrite ==
    /\ pc = "dest"
    /\ written < Len(filePaths)
    /\ written' = written + 1
    /\ clone' = IF destDir = repoDir
                THEN [clone EXCEPT !.wt = WriteFile(@, filePaths[written + 1])]
                ELSE clone
    /\ UNCHANGED <<envVars, streamVars, pc, handle, base, calls, results,
                   reason, endVars, startTime, remote>>

\* 'end' signalled while files are still to be written
destEnd_Early ==
    /\ pc = "dest"
    /\ Fulfil("stage")
    /\ UNCHANGED <<envVars, streamVars, handle, written, base, endVars, startTime,
                   clone, remote>>

\* 'end': every file has been written
destEnd ==
    /\ pc = "dest"
    /\ written = Len(filePaths)
    /\ Fulfil("stage")
    /\ UNCHANGED <<envVars, streamVars, handle, written, base, endVars, startTime,
                   clone, remote>>

\* 'error': the handler rejects the deferred and throws
destError ==
    /\ pc = "dest"
    /\ results' = Append(results, "failed")
    /\ reason' = "WriteFailed"
    /\ thrown' = "Error: " \o reason'
    /\ pc' = "thrown"
    /\ UNCHANGED <<envVars, streamVars, handle, written, base, calls, callbacks,
                   startTime, clone, remote>>

\* addFiles('.'): stage the working tree; _staged is what differs from HEAD
addFilesOk ==
    /\ pc = "addFiles"
    /\ clone' = [clone EXCEPT !.index = clone.wt]
    /\ handle' = [handle EXCEPT !._staged =
                      Changed(clone.heads[clone.current].tree, clone.wt)]
    /\ Fulfil("decide")
    /\ UNCHANGED <<envVars, streamVars, written, base, endVars, startTime, remote>>

\* commit(message): NothingToCommit when nothing differs from HEAD
commitOk ==
    /\ pc = "commit"
    /\ clone.index # clone.heads[clone.current].tree
    /\ clone' = [clone EXCEPT !.heads[clone.current] =
                      Ref(clone.index, @.n + 1)]
    /\ Fulfil("afterCommit")
    /\ UNCHANGED <<envVars, streamVars, handle, written, base, endVars, startTime,
                   remote>>

\* push(origin): the remote branch becomes the local one
pushOk ==
    /\ pc = "push"
    /\ calls[Len(calls)].arg = "origin"
    /\ remote' = (clone.current :> clone.heads[clone.current]) @@ remote
    /\ clone' = [clone EXCEPT !.tracking =
                      @ \cup {Tracking("origin", clone.current)}]
    /\ Fulfil("fulfilled")
    /\ UNCHANGED <<envVars, streamVars, handle, written, base, endVars, startTime>>

ErrorOf(op) ==
    CASE op = "prepareRepo" -> "RepositoryUnavailable"
      [] op \in {"checkoutBranch", "createAndCheckoutBranch"} -> "CheckoutFailed"
      [] op = "pull" -> "SyncFailed"
      [] op = "commit" -> "NothingToCommit"
      [] op = "push" -> "PushRejected"
      [] OTHER -> op \o " failed"

GitOps ==
    {"prepareRepo", "checkoutBranch", "createAndCheckoutBranch", "pull",
     "removeFiles", "addFiles", "commit", "push"}

\* the pending promise of the handle is rejected
rejects ==
    /\ pc \in GitOps
    /\ results' = Append(results, "failed")
    /\ reason' = ErrorOf(pc)
    /\ pc' = "rejected"
    /\ UNCHANGED <<envVars, streamVars, handle, written, base, calls, endVars,
                   startTime, clone, remote>>

-----------------------------------------------------------------------------
(* The next invocation of the plugin, with the same options *)

newRun ==
    /\ pc \in {"done", "thrown"}
    /\ run < MaxRuns
    /\ run' = run + 1
    /\ prev' = [ended |-> pc,
                tree |-> IF pc = "done"
                         THEN WriteFiles(EmptyTree, filePaths, Len(filePaths))
                         ELSE EmptyTree]
    /\ pc' = "collect"
    /\ filePaths' = <<>>
    /\ forwarded' = <<>>
    /\ errors' = <<>>
    /\ received' = 0
    /\ input' = <<>>
    /\ handle' = NoHandle
    /\ written' = 0
    /\ base' = 0
    /\ calls' = <<>>
    /\ results' = <<>>
    /\ reason' = Undefined
    /\ callbacks' = <<>>
    /\ thrown' = Undefined
    /\ startTime' = Undefined
    \* a temporary working copy does not outlive the run
    /\ clone' = IF cacheDir = Undefined THEN NoClone ELSE clone
    /\ UNCHANGED <<options, now, ticks, remote>>

-----------------------------------------------------------------------------
Next ==
    \/ Tick
    \/ collectFileName
    \/ task
    \/ prepareRepoOk
    \/ resolveBranch
    \/ checkoutBranchOk
    \/ createAndCheckoutBranchOk
    \/ sync
    \/ pullOk
    \/ clear
    \/ removeFilesOk
    \/ copyFiles
    \/ destWrite
    \/ destEnd
    \/ destError
    \/ stage
    \/ addFilesOk
    \/ decide
    \/ commitOk
    \/ afterCommit
    \/ pushOk
    \/ rejects
    \/ doneFulfilled
    \/ doneRejected
    \/ newRun

Spec == Init /\ [][Next]_vars

\* a handler of the chain that has become runnable runs
Handlers ==
    \/ resolveBranch
    \/ sync
    \/ clear
    \/ copyFiles
    \/ stage
    \/ decide
    \/ afterCommit
    \/ doneFulfilled
    \/ doneRejected

\* a call that has been made settles, one way or the other
Settles ==
    \/ prepareRepoOk
    \/ checkoutBranchOk
    \/ createAndCheckoutBranchOk
    \/ pullOk
    \/ removeFilesOk
    \/ destWrite
    \/ destEnd
    \/ destError
    \/ addFilesOk
    \/ commitOk
    \/ pushOk
    \/ rejects

\* the promise library runs every runnable handler, and every promise of a
\* collaborator is settled in the end
FairSpec == Spec /\ WF_vars(Handlers) /\ WF_vars(Settles)

-----------------------------------------------------------------------------
(* What the claims are stated in *)

\* the calls of op that were fulfilled
Succeeded(op) ==
    {i \in Called(op) : i <= Len(results) /\ results[i] = "ok"}

BranchCalls == Called("checkoutBranch") \cup Called("createAndCheckoutBranch")

\* the tree that writing the collected files into an empty directory gives
Collected == WriteFiles(EmptyTree, filePaths, Len(filePaths))

\* the options as documented, spelt out
BranchName == IF options.branch = Undefined THEN "gh-pages" ELSE options.branch

OriginName == IF options.origin = Undefined THEN "origin" ELSE options.origin

PushAsked == options.push \in {Undefined, "true"}

\* the clock value after k ms, written out
Stamp(k) ==
    IF k = 0 THEN "2000-02-28T23:59:59.999Z"
    ELSE "2000-02-29T00:00:00.00" \o Digit(k - 1) \o "Z"

-----------------------------------------------------------------------------
\* C1: when nothing was collected at end of input, the step that ends the
\* input calls no collaborator, leaves the working copy and the remote as
\* they were, and invokes the callback once, without an error.
C1_EmptySetIsNoOp ==
    [][(pc = "collect" /\ pc' # "collect" /\ errors' = errors
            /\ Len(filePaths) = 0)
          => /\ pc' = "done"
             /\ calls' = <<>>
             /\ callbacks' = <<Undefined>>
             /\ thrown' = Undefined
             /\ clone' = clone
             /\ remote' = remote]_vars

C1_Witness ==
    /\ pc = "done"
    /\ Len(filePaths) = 0
    /\ calls = <<>>
    /\ callbacks = <<Undefined>>
    /\ run = 2
    /\ clone.exists
    /\ branch \in clone.local

\* C2: once addFiles has succeeded with nothing staged, commit and push are
\* never called in that run, and the run is on its way to, or at, the
\* callback without an error.
C2_NothingStagedNoCommit ==
    [](
        (Succeeded("addFiles") # {} /\ handle._staged = {})
            => /\ Called("commit") = {}
               /\ Called("push") = {}
               /\ pc \in {"decide", "fulfilled", "done"}
               /\ thrown = Undefined
               /\ (pc = "done" => callbacks = <<Undefined>>)
    )

C2_Witness ==
    /\ pc = "done"
    /\ Succeeded("addFiles") # {}
    /\ handle._staged = {}
    /\ filePaths # <<>>
    /\ callbacks = <<Undefined>>

\* C3: commit is called at most once in a run, and once the handler after
\* staging has run with something staged it has been called exactly once,
\* with "Update " followed by the clock's time in ISO-8601 form.
C3_OneCommitWithTimestamp ==
    [](
        /\ Cardinality(Called("commit")) <= 1
        /\ \A i \in Called("commit") : calls[i].arg = "Update " \o Stamp(ticks)
        /\ (Succeeded("addFiles") # {} /\ handle._staged # {} /\ pc # "decide")
               => Cardinality(Called("commit")) = 1
    )

C3_Witness ==
    /\ pc = "done"
    /\ ticks = 1
    /\ Succeeded("commit") # {}
    /\ calls[Len(calls)].op = "commit"
    /\ calls[Len(calls)].arg = "Update 2000-02-29T00:00:00.000Z"

\* C4: push is called at most once; it is called, with the origin, exactly
\* when a commit of the run succeeded and the push option is true or
\* omitted; with push false a commit is followed by no push and the run goes
\* on to the callback without an error.
C4_PushGating ==
    [](
        /\ Cardinality(Called("push")) <= 1
        /\ \A i \in Called("push") :
               /\ calls[i].arg = OriginName
               /\ Succeeded("commit") # {}
               /\ PushAsked
        /\ (Succeeded("commit") # {} /\ pc # "afterCommit")
               => IF PushAsked
                  THEN Cardinality(Called("push")) = 1
                  ELSE /\ Called("push") = {}
                       /\ Cardinality(Succeeded("commit")) = 1
                       /\ pc \in {"fulfilled", "done"}
                       /\ thrown = Undefined
        /\ (Succeeded("commit") = {} => Called("push") = {})
    )

C4_Witness ==
    /\ pc = "done"
    /\ options.push = "false"
    /\ Cardinality(Succeeded("commit")) = 1
    /\ Called("push") = {}
    /\ callbacks = <<Undefined>>

\* C5: when a run with a non-empty collected set has invoked the callback,
\* the target branch is checked out and its working tree, its index and its
\* head hold exactly the collected files; the run made at most one commit,
\* exactly one if anything was staged, and so exactly one if it replaced a
\* different tree deployed by the run before.
C5_TreeIsReplaced ==
    [](
        (pc = "done" /\ filePaths # <<>>)
            => /\ clone.current = BranchName
               /\ clone.wt = Collected
               /\ PathsOf(clone.wt) = {filePaths[i].path : i \in 1..Len(filePaths)}
               /\ clone.index = Collected
               /\ clone.heads[BranchName].tree = Collected
               /\ Cardinality(Succeeded("commit")) <= 1
               /\ (handle._staged # {} <=> Cardinality(Succeeded("commit")) = 1)
               /\ (prev.ended = "done" /\ prev.tree \notin {EmptyTree, Collected}
                       => Cardinality(Succeeded("commit")) = 1)
    )

C5_Witness ==
    /\ pc = "done"
    /\ prev.ended = "done"
    /\ prev.tree = {[path |-> "a.html", contents |-> "B"]}
    /\ filePaths = <<[kind |-> "buffer", path |-> "b.html", contents |-> "A"]>>
    /\ clone.wt = {[path |-> "b.html", contents |-> "A"]}
    /\ clone.index = clone.wt
    /\ handle._staged = {"a.html", "b.html"}
    /\ Cardinality(Succeeded("commit")) = 1

\* C6: in a run that follows a successful run which had collected files
\* giving the same tree, commit and push are never called, nothing is staged
\* once addFiles has succeeded, and from there the run goes on to the
\* callback without an error.
C6_RedeployIsIdempotent ==
    [](
        (prev.ended = "done" /\ pc # "collect" /\ prev.tree = Collected)
            => /\ Called("commit") = {}
               /\ Called("push") = {}
               /\ (Succeeded("addFiles") # {}
                       => /\ handle._staged = {}
                          /\ pc \in {"decide", "fulfilled", "done"}
                          /\ thrown = Undefined)
               /\ (pc = "done" => callbacks = <<Undefined>>)
    )

C6_Witness ==
    /\ pc = "done"
    /\ prev.ended = "done"
    /\ filePaths # <<>>
    /\ prev.tree = Collected
    /\ Succeeded("addFiles") # {}
    /\ handle._staged = {}
    /\ Called("commit") = {}

\* C7: a run calls at most one branch operation, on the target branch, and
\* has called one as soon as the handler after prepareRepo has run:
\* checkoutBranch when the branch is among the handle's local branches or
\* origin/branch among its remote branches, createAndCheckoutBranch when it
\* is in neither.
C7_BranchResolution ==
    [](
        /\ Cardinality(BranchCalls) <= 1
        /\ \A i \in BranchCalls :
               /\ i = 2
               /\ calls[i].arg = BranchName
               /\ calls[i].op =
                      IF BranchName \in handle._localBranches
                      THEN "checkoutBranch"
                      ELSE IF (OriginName \o "/" \o BranchName)
                                  \in handle._remoteBranches
                      THEN "checkoutBranch"
                      ELSE "createAndCheckoutBranch"
        /\ (Succeeded("prepareRepo") # {} /\ pc # "resolveBranch")
               => Cardinality(BranchCalls) = 1
    )

C7_Witness ==
    /\ pc = "done"
    /\ filePaths # <<>>
    /\ Called("checkoutBranch") = {2}
    /\ BranchName \notin handle._localBranches
    /\ Tracking("origin", BranchName) \in handle._remoteBranches

\* C8: pull is called at most once in a run; once the handler after the
\* branch operation has run, the next call is pull if a cacheDir was given
\* and removeFiles, with no pull in the run, if none was.
C8_SyncGating ==
    [](
        /\ Cardinality(Called("pull")) <= 1
        /\ (Called("pull") # {} => options.cacheDir # Undefined)
        /\ (\E i \in BranchCalls : i \in Succeeded(calls[i].op)) /\ pc # "sync"
               => IF options.cacheDir # Undefined
                  THEN Called("pull") = {3}
                  ELSE /\ Called("pull") = {}
                       /\ (pc # "clear" => calls[3].op = "removeFiles")
    )

C8_Witness ==
    /\ options.cacheDir = Undefined
    /\ Len(calls) >= 3
    /\ calls[3].op = "removeFiles"
    /\ Called("pull") = {}

\* C9: a call that failed is the last call of its run: nothing is called
\* after it, no operation is called a second time, and the callback is not
\* invoked.
C9_FailureAborts ==
    [](
        /\ Len(results) <= Len(calls)
        /\ \A i \in 1..Len(results) :
               results[i] = "failed"
                   => /\ i = Len(calls)
                      /\ pc \in {"rejected", "thrown"}
                      /\ callbacks = <<>>
        /\ \A i, j \in 1..Len(calls) : calls[i].op = calls[j].op => i = j
    )

C9_Witness ==
    /\ pc = "thrown"
    /\ Len(calls) = 3
    /\ calls[3].op = "pull"
    /\ results = <<"ok", "ok", "failed">>
    /\ Called("removeFiles") = {}

\* C10: when a run is over the callback has been invoked once, and with the
\* failure if a step of the run failed.
C10_CallbackOnEveryOutcome ==
    pc \in {"done", "thrown"}
        => /\ Len(callbacks) = 1
           /\ (reason # Undefined => callbacks[1] = reason)

\* C11: in a run in which a file with streamed content was received,
\* nothing is removed, written, staged, committed or pushed, and the
\* callback is not invoked without an error.
C11_StreamIsHardStop ==
    errors # <<>>
        => /\ Called("removeFiles") = {}
           /\ Called("dest") = {}
           /\ Called("addFiles") = {}
           /\ Called("commit") = {}
           /\ Called("push") = {}
           /\ pc # "done"

IsStreamFile(f) == f.kind = "stream"

IsBufferFile(f) == f.kind = "buffer"

IsNullFile(f) == f.kind = "null"

\* C12: every file with streamed content that was received has raised one
\* "Stream content is not supported" error, and no such file is among the
\* collected files, in the working tree or in the index.
C12_StreamIsRejected ==
    [](
        /\ Len(errors) = Len(SelectSeq(input, IsStreamFile))
        /\ \A i \in 1..Len(errors) : errors[i] = "Stream content is not supported"
        /\ \A i \in 1..Len(filePaths) : ~IsStreamFile(filePaths[i])
        /\ \A i \in 1..Len(input) :
               IsStreamFile(input[i])
                   => input[i].path \notin PathsOf(clone.wt) \cup PathsOf(clone.index)
    )

C12_Witness ==
    /\ pc = "done"
    /\ Len(input) = 2
    /\ IsStreamFile(input[1])
    /\ IsBufferFile(input[2])
    /\ Len(errors) = 1
    /\ filePaths = <<input[2]>>
    /\ Succeeded("addFiles") # {}
    /\ clone.index = Collected

\* C13: whenever gulp.dest is called, its folder is the directory of the
\* working copy that prepareRepo opened.
C13_WrittenIntoWorkingCopy ==
    \A i \in Called("dest") :
        calls[i].arg = (IF options.cacheDir = Undefined
                        THEN "tmpdir" ELSE options.cacheDir)

\* C14: when push was rejected, it is the last call of the run, the chain
\* ends with that rejection thrown and the callback not invoked, and the
\* branch keeps the commit: its head holds the collected files and has one
\* commit more than when the deployment began.
C14_PushFailureKeepsCommit ==
    [](
        \A i \in Called("push") :
            (i <= Len(results) /\ results[i] = "failed")
                => /\ i = Len(calls)
                   /\ pc \in {"rejected", "thrown"}
                   /\ reason = "PushRejected"
                   /\ (pc = "thrown" => thrown = "Error: PushRejected")
                   /\ callbacks = <<>>
                   /\ Cardinality(Succeeded("commit")) = 1
                   /\ clone.heads[clone.current].n = base + 1
                   /\ clone.heads[clone.current].tree = Collected
                   /\ clone.index = Collected
    )

C14_Witness ==
    /\ pc = "thrown"
    /\ options.origin = Undefined
    /\ calls # <<>>
    /\ calls[Len(calls)].op = "push"
    /\ results[Len(calls)] = "failed"
    /\ Succeeded("commit") # {}
    /\ clone.heads[clone.current].n = base + 1
    /\ base = 1

\* clock values compared
Before(a, b) == a.day < b.day \/ (a.day = b.day /\ a.ms < b.ms)

\* C15 as stated: the time in the message of every commit is strictly later
\* than the time at which the run started.
C15_StrictlyAfterStart ==
    \A i \in Called("commit") :
        /\ calls[i].arg = "Update " \o ToISOString(now)
        /\ Before(startTime, now)

\* C15: the step that calls commit passes "Update " followed by the clock's
\* value at that step, and that value is not earlier than the clock's value
\* when the run started; it is the same value when the clock has not advanced.
C15_TimeReadAtCommit ==
    [][(pc = "decide" /\ Len(calls') > Len(calls))
          => /\ calls'[Len(calls')].op = "commit"
             /\ calls'[Len(calls')].arg = "Update " \o ToISOString(now)
             /\ ~Before(now, startTime)
             /\ (ticks = 0 => startTime = now)]_vars

C15_Witness ==
    /\ pc = "done"
    /\ Succeeded("commit") # {}
    /\ startTime = now
    /\ \A i \in Called("commit") : calls[i].arg = "Update " \o ToISOString(startTime)

\* the place of an operation in the pass
Rank(op) ==
    CASE op = "prepareRepo" -> 1
      [] op \in {"checkoutBranch", "createAndCheckoutBranch"} -> 2
      [] op = "pull" -> 3
      [] op = "removeFiles" -> 4
      [] op = "dest" -> 5
      [] op = "addFiles" -> 6
      [] op = "commit" -> 7
      [] op = "push" -> 8
      [] OTHER -> 0

\* C16: the operations of a run are called in the order prepareRepo, branch
\* operation, pull (which may be left out), removeFiles, write, addFiles,
\* commit, push, each at most once and none left out before a later one; at
\* most the last one called is still in progress, every one before it has
\* succeeded, and the run is complete only when none is in progress.
C16_SingleForwardPass ==
    [](
        /\ \A i \in 1..Len(calls) :
               /\ Rank(calls[i].op) # 0
               /\ Rank(calls[i].op) =
                      (IF i = 1 THEN 1
                       ELSE IF Rank(calls[i - 1].op) = 2 /\ calls[i].op # "pull"
                       THEN 4
                       ELSE Rank(calls[i - 1].op) + 1)
        /\ Len(results) \in {Len(calls), Len(calls) - 1}
        /\ \A i \in 1..Len(results) : i < Len(calls) => results[i] = "ok"
        /\ (Len(results) < Len(calls)) = (pc \in GitOps \cup {"dest"})
        /\ Len(results) < Len(calls) => pc = calls[Len(calls)].op
        /\ pc = "done" => \A i \in 1..Len(results) : results[i] = "ok"
    )

C16_Witness ==
    /\ pc = "done"
    /\ Len(calls) = 8
    /\ [i \in 1..8 |-> calls[i].op] =
           <<"prepareRepo", "checkoutBranch", "pull", "removeFiles", "dest",
             "addFiles", "commit", "push">>
    /\ results = [i \in 1..8 |-> "ok"]

\* C17: whenever the handler that stages is runnable or addFiles has been
\* called, the write has ended successfully before it, every collected file has
\* been written, and the working copy holds exactly the collected files.
C17_WrittenBeforeStaged ==
    [](
        (pc = "stage" \/ Called("addFiles") # {})
            => /\ written = Len(filePaths)
               /\ Succeeded("dest") # {}
               /\ \A i \in Called("addFiles") : \A j \in Called("dest") : j < i
               /\ clone.wt = Collected
    )

C17_Witness ==
    /\ pc = "addFiles"
    /\ Len(filePaths) = 2
    /\ written = 2
    /\ Cardinality(clone.wt) = 2
    /\ clone.wt = Collected
    /\ clone.index # clone.wt

\* the operations that list the branches of the working copy
ListOps == {"listLocalBranches", "listRemoteBranches"}

C19_CallbackExactlyOnce ==
    /\ [](/\ Len(callbacks) <= 1
          /\ (callbacks # <<>> <=> pc = "done")
          /\ (pc = "done" => callbacks = <<Undefined>>))
    /\ (pc = "prepareRepo")
           ~> (\/ pc = "done" /\ callbacks = <<Undefined>>
               \/ \E i \in 1..Len(results) : results[i] = "failed")

C19_Witness ==
    /\ run = 2
    /\ prev.ended = "done"
    /\ pc = "done"
    /\ callbacks = <<Undefined>>
    /\ Succeeded("push") # {}
    /\ \A i \in 1..Len(results) : results[i] = "ok"

\* C20: of the files received, those with buffered contents are the collected
\* ones, in the order of arrival, those with null contents are the forwarded
\* ones, unchanged and in order, and there is one error for each with streamed
\* contents; and task, run after null files only, calls no operation and
\* invokes the callback.
C20_CollectorClassification ==
    [](
        /\ filePaths = SelectSeq(input, IsBufferFile)
        /\ forwarded = SelectSeq(input, IsNullFile)
        /\ Len(errors) = Len(SelectSeq(input, IsStreamFile))
        /\ Len(filePaths) + Len(forwarded) + Len(errors) = received
        /\ Len(input) = received
        /\ (pc # "collect" /\ \A i \in 1..Len(input) : IsNullFile(input[i]))
               => /\ pc = "done"
                  /\ calls = <<>>
                  /\ callbacks = <<Undefined>>
    )

C20_Witness ==
    /\ pc = "done"
    /\ Len(input) = 2
    /\ IsNullFile(input[1])
    /\ IsNullFile(input[2])
    /\ forwarded = input
    /\ filePaths = <<>>
    /\ calls = <<>>
    /\ run = 1
    /\ ~clone.exists

====
